---- MODULE Spec2Model ----
(***************************************************************************)
(* Model of the weather application ("Weather Appp.py"):                   *)
(*   - WeatherClient: geocode, current, forecast_5day, alerts, ip_location *)
(*   - FetchThread.run and the WeatherApp event handlers                   *)
(* JSON values are tagged records, so that Python's dynamic checks         *)
(* (truthiness, isinstance, == [], is None, key presence) are computed     *)
(* rather than assumed.  A JSON object is Obj(r) with r a record whose     *)
(* DOMAIN is exactly the set of keys present in the object.                *)
(* Temperatures are integers in tenths of a degree; Python's round() is    *)
(* computed on them (round half to even).                                  *)
(***************************************************************************)
EXTENDS Integers, Sequences, FiniteSets, TLC

\* ------------------------------------------------------------------ bounds
\* number of distinct calendar dates available to the date-diverse inputs
MaxDays == 6
\* length of the content-diverse sample lists
MaxSamples == 3
\* first epoch day of the window of dates (20815 = 2026-12-28, the window
\* crosses a month and a year boundary)
FirstDay == 20815
\* number of fetches the user may start in one run of the application
MaxFetches == 2

\* ------------------------------------------------------------- JSON values
Null == [t |-> "null"]
Num(n) == [t |-> "num", v |-> n]
Str(s) == [t |-> "str", v |-> s]
List(s) == [t |-> "list", v |-> s]
Obj(r) == [t |-> "obj", v |-> r]
\* a body r.json() cannot decode
Malformed == [t |-> "malformed"]

\* Python truthiness of a JSON value (bool(x))
Truthy(x) ==
    CASE x.t = "null" -> FALSE
      [] x.t = "num" -> x.v # 0
      [] x.t = "str" -> x.v # ""
      [] x.t = "list" -> Len(x.v) > 0
      [] x.t = "obj" -> DOMAIN x.v # {}
      [] OTHER -> FALSE

\* isinstance(j, dict)
IsDict(j) == j.t = "obj"

\* j.get(k, d) on a dict j
Get(j, k, d) == IF k \in DOMAIN j.v THEN j.v[k] ELSE d

\* outcome of a call: a returned value, or a raised exception with str(e)
Return(v) == [ok |-> TRUE, val |-> v]
Raise(m) == [ok |-> FALSE, msg |-> m]

\* ------------------------------------------------------------ HTTP replies
\* requests.get raised (timeout, DNS, connection refused)
NetError == [kind |-> "neterr"]
Http(status, body) == [kind |-> "http", status |-> status, body |-> body]

\* ------------------------------------------------- forecast: pure helpers
\* datetime.utcfromtimestamp(dt): days since the epoch and hour of the day
UtcDay(dt) == dt \div 86400
UtcHour(dt) == (dt % 86400) \div 3600

\* the civil date (year, month, day) of an epoch day (proleptic Gregorian)
CivilFromDays(n) ==
    LET z == n + 719468
        era == z \div 146097
        doe == z - era * 146097
        yoe == (doe - doe \div 1460 + doe \div 36524 - doe \div 146096) \div 365
        doy == doe - (365 * yoe + yoe \div 4 - yoe \div 100)
        mp == (5 * doy + 2) \div 153
        d == doy - (153 * mp + 2) \div 5 + 1
        m == IF mp < 10 THEN mp + 3 ELSE mp - 9
        y == yoe + era * 400 + (IF m <= 2 THEN 1 ELSE 0)
    IN  <<y, m, d>>

\* strftime("%Y-%m-%d"): the key is the zero-padded text YYYY-MM-DD, kept
\* here as its three fields; text order on the key is field order (DateLess)
DateKey(dt) == CivilFromDays(UtcDay(dt))

\* a < b on "%Y-%m-%d" strings (fixed width, so lexicographic by field)
DateLess(a, b) ==
    \/ a[1] < b[1]
    \/ a[1] = b[1] /\ a[2] < b[2]
    \/ a[1] = b[1] /\ a[2] = b[2] /\ a[3] < b[3]

\* str.title() on the descriptions the model uses
Title(s) ==
    CASE s = "light rain" -> "Light Rain"
      [] s = "LIGHT RAIN" -> "Light Rain"
      [] s = "clear sky" -> "Clear Sky"
      [] s = "Clear Sky" -> "Clear Sky"
      [] OTHER -> s

\* a rounding that truncates toward minus infinity (math.floor)
RoundDown(t) == t \div 10

\* a rounding to nearest that sends every tie upward (floor(x + 0.5))
RoundHalfUp(t) == (t + 5) \div 10

\* Python 3 round(x) of x = t/10: to nearest, ties to the even integer
Round(t) ==
    LET f == t \div 10
        r == t % 10
    IN  IF r < 5 THEN f
        ELSE IF r > 5 THEN f + 1
        ELSE IF f % 2 = 0 THEN f ELSE f + 1

RECURSIVE MinOf(_)
MinOf(s) ==
    IF Len(s) = 1 THEN s[1]
    ELSE LET m == MinOf(Tail(s)) IN IF m < s[1] THEN m ELSE s[1]

RECURSIVE MaxOf(_)
MaxOf(s) ==
    IF Len(s) = 1 THEN s[1]
    ELSE LET m == MaxOf(Tail(s)) IN IF m > s[1] THEN m ELSE s[1]

\* number of occurrences of x in s
Count(s, x) == Cardinality({i \in 1..Len(s) : s[i] = x})

\* a most_common that resolves a tie in favour of the value inserted last
MostCommonLast(s) ==
    LET best == CHOOSE i \in 1..Len(s) :
                  /\ \A j \in 1..Len(s) : Count(s, s[j]) <= Count(s, s[i])
                  /\ \A j \in (i + 1)..Len(s) : s[j] # s[i]
                  /\ \A j \in (i + 1)..Len(s) : Count(s, s[j]) < Count(s, s[i])
    IN  s[best]

\* Counter(s).most_common(1)[0][0]: highest count, first inserted on a tie
MostCommon(s) ==
    LET best == CHOOSE i \in 1..Len(s) :
                  /\ \A j \in 1..Len(s) : Count(s, s[j]) <= Count(s, s[i])
                  /\ \A j \in 1..(i - 1) : Count(s, s[j]) < Count(s, s[i])
    IN  s[best]

\* buckets[date_key].append(item) for each item, dict in insertion order:
\* a sequence of [date, items] in first-seen order of the dates
RECURSIVE Buckets(_)
Buckets(list) ==
    IF list = <<>> THEN <<>>
    ELSE LET n == Len(list)
             item == list[n]
             before == Buckets(SubSeq(list, 1, n - 1))
             key == DateKey(item.dt)
             hit == {i \in 1..Len(before) : before[i].date = key}
         IN  IF hit = {}
               THEN Append(before, [date |-> key, items |-> <<item>>])
               ELSE [i \in 1..Len(before) |->
                       IF i \in hit
                         THEN [date |-> key, items |-> Append(before[i].items, item)]
                         ELSE before[i]]

\* the noon search without its break: the last item whose UTC hour is 12
NoonItemLast(items) ==
    LET at12 == {i \in 1..Len(items) : UtcHour(items[i].dt) = 12} IN
    IF at12 = {} THEN [t |-> "none"]
    ELSE items[CHOOSE i \in at12 : \A j \in at12 : j <= i]

\* the first item of the group whose UTC hour is 12, or none
NoonItems(items) == {i \in 1..Len(items) : UtcHour(items[i].dt) = 12}
NoNoon == [t |-> "none"]
NoonItem(items) ==
    IF NoonItems(items) = {} THEN NoNoon
    ELSE items[CHOOSE i \in NoonItems(items) : \A j \in NoonItems(items) : i <= j]

\* one daily entry from one bucket
DayEntry(b) ==
    LET items == b.items
        temps_min == [i \in 1..Len(items) |-> items[i].temp_min]
        temps_max == [i \in 1..Len(items) |-> items[i].temp_max]
        icons == [i \in 1..Len(items) |-> items[i].icon]
        descs == [i \in 1..Len(items) |-> Title(items[i].description)]
        noon_item == NoonItem(items)
    IN  [date |-> b.date,
         tmin |-> Round(MinOf(temps_min)),
         tmax |-> Round(MaxOf(temps_max)),
         icon |-> IF noon_item = NoNoon THEN MostCommon(icons) ELSE noon_item.icon,
         desc |-> IF noon_item = NoNoon
                    THEN MostCommon(descs)
                    ELSE Title(noon_item.description)]

\* the days left in bucket order
Unsorted(days) == days

\* list.sort(key=lambda d: d["date"]): stable insertion by date
RECURSIVE SortByDate(_)
SortByDate(days) ==
    IF days = <<>> THEN <<>>
    ELSE LET n == Len(days)
             d == days[n]
             sorted == SortByDate(SubSeq(days, 1, n - 1))
             k == Cardinality({i \in 1..Len(sorted) : ~DateLess(d.date, sorted[i].date)})
         IN  SubSeq(sorted, 1, k) \o <<d>> \o SubSeq(sorted, k + 1, Len(sorted))

\* days[-5:]: the last five instead of the first five
TakeLast5(days) == SubSeq(days, IF Len(days) < 5 THEN 1 ELSE Len(days) - 4, Len(days))

\* days[:5]
Take5(days) == SubSeq(days, 1, IF Len(days) < 5 THEN Len(days) ELSE 5)

\* the aggregation of forecast_5day, from the decoded sample list
Aggregate(list) ==
    LET buckets == Buckets(list)
        days == [i \in 1..Len(buckets) |-> DayEntry(buckets[i])]
    IN  Take5(SortByDate(days))

\* ------------------------------------------------------ WeatherClient calls
\* Each call takes the reply of its HTTP request(s) and yields Return(value)
\* or Raise(str(e)).

\* requests.get(...) then r.raise_for_status() then r.json(): the decoded
\* body, or the exception one of the three raised
Fetched(resp) ==
    IF resp.kind = "neterr" THEN Raise("ConnectionError")
    ELSE IF resp.status >= 400 THEN Raise("HTTPError")
    ELSE IF resp.body = Malformed THEN Raise("JSONDecodeError")
    ELSE Return(resp.body)

\* a label that always writes the separator
LabelWithComma(name, country) ==
    name.v \o ", " \o (IF Truthy(country) THEN country.v ELSE "")

\* f"{name}{', ' + country if country else ''}"
Label(name, country) ==
    IF Truthy(country) THEN name.v \o ", " \o country.v ELSE name.v

geocode(resp) ==
    LET f == Fetched(resp) IN
    IF ~f.ok THEN f
    ELSE LET items == f.val IN
         IF ~Truthy(items) THEN Raise("Location not found.")
         ELSE IF items.t # "list" THEN Raise("0")
         ELSE LET g == items.v[1] IN
              IF ~IsDict(g) THEN Raise("TypeError")
              ELSE IF "lat" \notin DOMAIN g.v THEN Raise("'lat'")
              ELSE IF "lon" \notin DOMAIN g.v THEN Raise("'lon'")
              ELSE Return([lat |-> g.v["lat"], lon |-> g.v["lon"],
                           label |-> Label(Get(g, "name", Str("")),
                                           Get(g, "country", Null))])

\* j.get("cod") not in (200, "200", None)
CodFailsCurrent(j) ==
    Get(j, "cod", Null) \notin {Num(200), Str("200"), Null}

\* j.get("cod") not in ("200", 200)
CodFailsForecast(j) ==
    Get(j, "cod", Null) \notin {Str("200"), Num(200)}

\* str(RuntimeError(j.get("message", default)))
ProviderMessage(j, default) == Get(j, "message", Str(default)).v

current(resp) ==
    LET f == Fetched(resp) IN
    IF ~f.ok THEN f
    ELSE LET j == f.val IN
         IF ~IsDict(j) THEN Raise("AttributeError")
         ELSE IF CodFailsCurrent(j)
           THEN Raise(ProviderMessage(j, "Failed to fetch current weather"))
         ELSE Return(j)

forecast_5day(resp) ==
    LET f == Fetched(resp) IN
    IF ~f.ok THEN f
    ELSE LET j == f.val IN
         IF ~IsDict(j) THEN Raise("AttributeError")
         ELSE IF CodFailsForecast(j)
           THEN Raise(ProviderMessage(j, "Failed to fetch forecast"))
         ELSE Return(Aggregate(Get(j, "list", List(<<>>)).v))

\* one attempt of alerts(): the body of one try block.  done: the block
\* executed a return statement; otherwise control falls to the next block
Decided(v) == [done |-> TRUE, val |-> v]
FallThrough == [done |-> FALSE]

\* try: One Call 3.0
OneCall30(resp) ==
    IF resp.kind = "neterr" THEN FallThrough
    ELSE IF resp.status # 200 THEN FallThrough
    ELSE IF resp.body = Malformed THEN FallThrough
    ELSE LET j == resp.body IN
         IF IsDict(j) /\ Truthy(Get(j, "alerts", Null)) THEN Decided(j.v["alerts"])
         ELSE IF IsDict(j) /\ Get(j, "alerts", List(<<>>)) = List(<<>>)
           THEN Decided(List(<<>>))
         ELSE FallThrough

\* try: One Call 2.5 fallback
OneCall25(resp) ==
    IF resp.kind = "neterr" THEN FallThrough
    ELSE IF resp.status # 200 THEN FallThrough
    ELSE IF resp.body = Malformed THEN FallThrough
    ELSE LET j == resp.body IN
         IF IsDict(j) /\ Truthy(Get(j, "alerts", Null)) THEN Decided(j.v["alerts"])
         ELSE IF IsDict(j) /\ Get(j, "alerts", List(<<>>)) = List(<<>>)
           THEN Decided(List(<<>>))
         ELSE FallThrough

\* alerts() without its try/except around the requests
alerts_unguarded(r30, r25) ==
    IF r30.kind = "neterr" \/ r25.kind = "neterr" THEN Raise("ConnectionError")
    ELSE [ok |-> TRUE,
          val |-> IF OneCall30(r30).done THEN OneCall30(r30).val
                  ELSE IF OneCall25(r25).done THEN OneCall25(r25).val ELSE Null,
          reqs |-> <<"OWM_ONECALL_30", "OWM_ONECALL_25">>]

\* an alerts() that requests both endpoints before it looks at either reply
alerts_eager(r30, r25) ==
    LET a == OneCall30(r30)
        b == OneCall25(r25)
    IN  [ok |-> TRUE,
         val |-> IF a.done THEN a.val ELSE IF b.done THEN b.val ELSE Null,
         reqs |-> <<"OWM_ONECALL_30", "OWM_ONECALL_25">>]

\* alerts(): the value returned and the requests issued, in order
alerts(r30, r25) ==
    LET a == OneCall30(r30) IN
    IF a.done THEN [ok |-> TRUE, val |-> a.val, reqs |-> <<"OWM_ONECALL_30">>]
    ELSE LET b == OneCall25(r25) IN
         [ok |-> TRUE,
          val |-> IF b.done THEN b.val ELSE Null,
          reqs |-> <<"OWM_ONECALL_30", "OWM_ONECALL_25">>]

\* data.get("city") or "My location"
CityOr(data) ==
    IF Truthy(Get(data, "city", Null)) THEN data.v["city"] ELSE Str("My location")

\* ip_location() without its try/except: failures propagate
ip_location_raises(resp) ==
    LET f == Fetched(resp) IN
    IF ~f.ok THEN f
    ELSE IF ~IsDict(f.val) THEN Raise("AttributeError")
    ELSE IF Get(f.val, "lat", Null) = Null THEN Return(Null)
    ELSE IF "lon" \notin DOMAIN f.val.v THEN Raise("'lon'")
    ELSE Return(Obj([lat |-> f.val.v["lat"],
                     lon |-> f.val.v["lon"],
                     city |-> CityOr(f.val),
                     country |-> Get(f.val, "country", Str("")),
                     timezone |-> Get(f.val, "timezone", Str("UTC"))]))

ip_location(resp) ==
    LET f == Fetched(resp) IN
    IF ~f.ok THEN Return(Null)
    ELSE LET data == f.val IN
         IF ~IsDict(data) THEN Return(Null)
         ELSE IF Get(data, "lat", Null) = Null THEN Return(Null)
         ELSE IF "lon" \notin DOMAIN data.v THEN Return(Null)
         ELSE Return(Obj([lat |-> data.v["lat"],
                          lon |-> data.v["lon"],
                          city |-> CityOr(data),
                          country |-> Get(data, "country", Str("")),
                          timezone |-> Get(data, "timezone", Str("UTC"))]))

\* ------------------------------------------------- replies of the services
\* geocoding candidates: {lat, lon, name, country}, the last two optional
Paris == Obj([lat |-> Num(48), lon |-> Num(2), name |-> Str("Paris"), country |-> Str("FR")])
Dhaka == Obj([lat |-> Num(23), lon |-> Num(90), name |-> Str("Dhaka"), country |-> Str("BD")])
GeoCandidates ==
    { Paris, Dhaka,
      Obj([lat |-> Num(48), lon |-> Num(2), name |-> Str("Paris")]),
      Obj([lat |-> Num(48), lon |-> Num(2), name |-> Str("Paris"), country |-> Str("")]),
      Obj([lat |-> Num(48), lon |-> Num(2), name |-> Str("Paris"), country |-> Null]),
      Obj([lat |-> Num(23), lon |-> Num(90), country |-> Str("BD")]),
      Obj([lon |-> Num(2), name |-> Str("Paris"), country |-> Str("FR")]),
      Obj([lat |-> Num(48), name |-> Str("Paris"), country |-> Str("FR")]) }

GeoResponses ==
    { NetError, Http(401, Obj([cod |-> Num(401), message |-> Str("Invalid API key")])),
      Http(200, Malformed), Http(200, List(<<>>)),
      Http(200, Obj([cod |-> Str("400"), message |-> Str("bad query")])),
      Http(200, List(<<Dhaka, Paris>>)) }
    \cup {Http(200, List(<<g>>)) : g \in GeoCandidates}

\* current weather bodies: cod 200, "200", absent, null, or a failure code
CurrentBodies ==
    { Obj([cod |-> Num(200), timezone |-> Num(21600), temp |-> Num(215)]),
      Obj([cod |-> Str("200"), temp |-> Num(-25)]),
      Obj([timezone |-> Str("Asia/Dhaka"), temp |-> Num(305)]),
      Obj([cod |-> Null, timezone |-> Str("Mars/Phobos")]),
      Obj([cod |-> Num(401), message |-> Str("Invalid API key")]),
      Obj([cod |-> Str("404"), message |-> Str("city not found")]),
      Obj([cod |-> Num(500)]) }

CurrentResponses ==
    { NetError, Http(500, Malformed), Http(200, Malformed), Http(200, List(<<>>)) }
    \cup {Http(200, j) : j \in CurrentBodies}

\* One Call alerts
Flood == Obj([event |-> Str("Flood Warning"), sender_name |-> Str("BMD")])
Storm == Obj([event |-> Str("Storm")])
AlertResponses ==
    { NetError,
      Http(401, Obj([cod |-> Num(401), message |-> Str("Invalid API key")])),
      Http(200, Malformed),
      Http(200, List(<<>>)),
      Http(200, Obj([alerts |-> List(<<Flood>>)])),
      Http(200, Obj([alerts |-> List(<<Storm, Flood>>)])),
      Http(200, Obj([alerts |-> List(<<>>)])),
      Http(200, Obj([alerts |-> Null])),
      Http(200, Obj([lat |-> Num(48), lon |-> Num(2)])) }

\* IP geolocation replies
IpResponses ==
    { NetError, Http(429, Malformed), Http(200, Malformed), Http(200, List(<<>>)),
      Http(200, Obj([status |-> Str("fail"), message |-> Str("reserved range")])),
      Http(200, Obj([lat |-> Num(23)])),
      Http(200, Obj([lon |-> Num(90)])),
      Http(200, Obj([lat |-> Null, lon |-> Num(90)])),
      Http(200, Obj([lat |-> Num(23), lon |-> Null])),
      Http(200, Obj([lat |-> Num(23), lon |-> Num(90)])),
      Http(200, Obj([lat |-> Num(23), lon |-> Num(90), city |-> Str("")])),
      Http(200, Obj([lat |-> Num(23), lon |-> Num(90), city |-> Str("Dhaka"),
                     country |-> Str("Bangladesh"), timezone |-> Str("Asia/Dhaka")])),
      Http(200, Obj([lat |-> Num(48), lon |-> Num(2), city |-> Str("Paris"),
                     country |-> Str(""), timezone |-> Str("Mars/Phobos")])) }

\* ------------------------------------------------------- forecast samples
\* one 3-hour sample: item["dt"], item["main"]["temp_min"],
\* item["main"]["temp_max"], item["weather"][0]["icon"|"description"]
Sample(dt, tmin, tmax, icon, desc) ==
    [dt |-> dt, temp_min |-> tmin, temp_max |-> tmax, icon |-> icon, description |-> desc]

At(day, hour) == (FirstDay + day) * 86400 + hour * 3600 + 60

\* sequences over S of length at most n
SeqsUpTo(S, n) == UNION {[1..k -> S] : k \in 0..n}

\* sequences over S of length at most n without repetition
RECURSIVE InjSeqs(_, _)
InjSeqs(S, n) ==
    IF n = 0 THEN {<<>>}
    ELSE {<<>>} \cup UNION {{<<x>> \o q : q \in InjSeqs(S \ {x}, n - 1)} : x \in S}

\* inputs that vary the dates: one sample per date, in any order
DateSamples ==
    {Sample(At(k, 9), 10 * k - 15, 10 * k + 5, "01d", "clear sky") : k \in 0..(MaxDays - 1)}
DateLists == InjSeqs(DateSamples, MaxDays)

\* inputs that vary the temperatures (tenths of a degree) on two dates
TempPairs == {<<-15, 5>>, <<5, 15>>, <<25, 27>>, <<12, 25>>, <<27, 12>>}
TempSamples ==
    {Sample(At(d, 9), p[1], p[2], "01d", "clear sky") : d \in {3, 4}, p \in TempPairs}
TempLists == SeqsUpTo(TempSamples, MaxSamples)

\* inputs that vary the hour, the icon and the description on two dates
Weathers ==
    {<<"01d", "clear sky">>, <<"01d", "Clear Sky">>, <<"10d", "light rain">>,
     <<"10d", "clear sky">>}
WeatherSamples ==
    {Sample(At(d, h), 100, 200, w[1], w[2]) : d \in {3, 4}, h \in {9, 12}, w \in Weathers}
WeatherLists == SeqsUpTo(WeatherSamples, MaxSamples)

SampleLists == DateLists \cup TempLists \cup WeatherLists

ForecastResponses ==
    {Http(200, Obj([cod |-> Str("200"), list |-> List(l)])) : l \in SampleLists}
    \cup { NetError, Http(500, Malformed), Http(200, Malformed), Http(200, List(<<>>)),
           Http(200, Obj([cod |-> Num(200), list |-> List(<<>>)])),
           Http(200, Obj([cod |-> Str("200")])),
           Http(200, Obj([list |-> List(<<>>)])),
           Http(200, Obj([cod |-> Null, list |-> List(<<>>)])),
           Http(200, Obj([cod |-> Num(401), message |-> Str("Invalid API key")])),
           Http(200, Obj([cod |-> Str("404")])) }

\* ------------------------------------------------------------------- state
VARIABLES
    call,         \* a WeatherClient call under test: its name and the replies it gets
    ret,          \* its outcome, NotCalled before the call
    enabled,      \* WeatherApp.isEnabled()
    units,        \* WeatherApp.units
    tzname,       \* WeatherApp.tzname
    city_label,   \* WeatherApp.city_label
    search_text,  \* the text of the search box
    view,         \* what the labels and cards show
    threads,      \* the FetchThreads created so far, in creation order
    signals,      \* signals emitted by workers, queued for the UI thread
    dialogs,      \* open QMessageBox.warning dialogs, innermost last
    ui_requests,  \* icon codes requested over HTTP from the UI thread
    started_view, \* what was displayed when the latest fetch started
    last_handled, \* the signal handled last since that fetch started
    generator,    \* the QRCodeGenerator window: its fields and widgets
    files,        \* the file system: the existing paths and their contents
    saves         \* the number of files the QR generator wrote so far

client_vars == <<call, ret>>
app_vars == <<enabled, units, tzname, city_label, search_text, view, threads,
              signals, dialogs, ui_requests, started_view, last_handled>>
qr_vars == <<generator, files, saves>>
vars == <<call, ret, enabled, units, tzname, city_label, search_text, view, threads,
          signals, dialogs, ui_requests, started_view, last_handled,
          generator, files, saves>>

NotCalled == [t |-> "pending"]
Call(fn, resp, resp2) == [fn |-> fn, resp |-> resp, resp2 |-> resp2]

ClientCalls ==
    {Call("geocode", r, NetError) : r \in GeoResponses}
    \cup {Call("current", r, NetError) : r \in CurrentResponses}
    \cup {Call("forecast_5day", r, NetError) : r \in ForecastResponses}
    \cup {Call("alerts", r[1], r[2]) : r \in AlertResponses \X AlertResponses}
    \cup {Call("ip_location", r, NetError) : r \in IpResponses}

\* ------------------------------------------------------ the application
\* replies the application's fetches draw from (subsets of the sets above)
GeoAppResponses ==
    { NetError, Http(200, List(<<>>)), Http(200, List(<<Paris>>)),
      Http(200, List(<<Obj([lat |-> Num(23), lon |-> Num(90), name |-> Str("Dhaka")])>>)) }

IpAppResponses ==
    { NetError,
      Http(200, Obj([status |-> Str("fail"), message |-> Str("reserved range")])),
      Http(200, Obj([lat |-> Num(23)])),
      Http(200, Obj([lat |-> Null, lon |-> Num(90)])),
      Http(200, Obj([lat |-> Num(23), lon |-> Null])),
      Http(200, Obj([lat |-> Num(23), lon |-> Num(90)])),
      Http(200, Obj([lat |-> Num(23), lon |-> Num(90), city |-> Str("Dhaka"),
                     country |-> Str("Bangladesh"), timezone |-> Str("Asia/Dhaka")])),
      Http(200, Obj([lat |-> Num(48), lon |-> Num(2), city |-> Str("Paris"),
                     country |-> Str(""), timezone |-> Str("Mars/Phobos")])) }

\* curr["main"]["temp"] is the key temp, curr["weather"][0]["icon"] the key icon
CurrentAppResponses ==
    { NetError,
      Http(200, Obj([cod |-> Num(401), message |-> Str("Invalid API key")])),
      Http(200, Obj([cod |-> Num(200), timezone |-> Num(21600), temp |-> Num(215),
                     icon |-> Str("01d")])),
      Http(200, Obj([timezone |-> Str("Asia/Dhaka")])) }

ForecastAppResponses ==
    { NetError,
      Http(200, Obj([list |-> List(<<>>)])),
      Http(200, Obj([cod |-> Str("200"), list |-> List(<<>>)])),
      Http(200, Obj([cod |-> Str("200"), list |-> List(<<
          Sample(At(4, 9), 12, 25, "10d", "light rain"),
          Sample(At(3, 12), -15, 5, "01d", "clear sky"),
          Sample(At(4, 15), 25, 27, "10d", "light rain")>>)])) }

AlertAppResponses ==
    { NetError,
      Http(401, Obj([cod |-> Num(401), message |-> Str("Invalid API key")])),
      Http(200, Malformed),
      Http(200, List(<<>>)),
      Http(200, Obj([alerts |-> List(<<Storm, Flood>>)])),
      Http(200, Obj([alerts |-> List(<<>>)])),
      Http(200, Obj([alerts |-> Null])) }

\* time zone names pytz.timezone() accepts
KnownZones == {"UTC", "Asia/Dhaka"}

SearchTexts == {"  ", " Paris "}

\* str.strip() on the texts the model uses
Strip(s) ==
    CASE s = "  " -> ""
      [] s = " Paris " -> "Paris"
      [] OTHER -> s

NoReply == [kind |-> "none"]
NoPayload == [t |-> "none"]

\* a FetchThread and the locals of its task: fn is the handler that made it,
\* calls the client calls the task issued so far, failed the call that raised
NewThread(fn, q) ==
    [fn |-> fn, q |-> q, pc |-> "locate", reply |-> NoReply, loc |-> Null,
     lat |-> Null, lon |-> Null, label |-> "", tz |-> Null, curr |-> Null, fc |-> <<>>,
     calls |-> <<>>, failed |-> "", nresult |-> 0, nerror |-> 0, nmsg |-> 0,
     handled |-> "no"]

\* a thread whose signal was handled: its task's frame is gone
Handled(t, how, shown) ==
    [NewThread(t.fn, "") EXCEPT !.pc = "done", !.nresult = t.nresult,
                                !.nerror = t.nerror, !.nmsg = t.nmsg + shown,
                                !.handled = how]

UiBlank ==
    [lbl_city |-> "--", lbl_temp |-> "--", icon_label |-> "", fc_cards |-> <<>>,
     al_cards |-> <<>>]

\* what the user sees: the fields and widgets update_ui writes
Display == [city_label |-> city_label, tzname |-> tzname, view |-> view]
NoDisplay == [t |-> "none"]

\* the state WeatherApp.__init__ leaves: its last statement is on_my_location()
InitApp ==
    /\ enabled = FALSE
    /\ units = "metric"
    /\ tzname = "UTC"
    /\ city_label = ""
    /\ search_text = ""
    /\ view = UiBlank
    /\ threads = <<NewThread("on_my_location", "")>>
    /\ signals = <<>>
    /\ dialogs = <<>>
    /\ ui_requests = {}
    /\ started_view = [city_label |-> "", tzname |-> "UTC", view |-> UiBlank]
    /\ last_handled = "none"

\* Qt delivers input to a widget only while it is enabled and no modal
\* dialog is open
UserCanAct == enabled /\ dialogs = <<>>

\* t = FetchThread(task); connect; t.start()
StartThread(fn, q) ==
    /\ threads' = Append(threads, NewThread(fn, q))
    /\ started_view' = Display
    /\ last_handled' = "none"

\* on_search(force): the early return when q is empty, else disable and start
on_search(force) ==
    LET q == IF force # "" THEN force ELSE Strip(search_text) IN
    IF q = ""
      THEN UNCHANGED <<enabled, threads, started_view, last_handled>>
      ELSE /\ enabled' = FALSE
           /\ StartThread("on_search", q)

\* on_my_location() without setEnabled(False)
on_my_location_open ==
    /\ enabled' = enabled
    /\ StartThread("on_my_location", "")

\* on_my_location(): disable and start
on_my_location ==
    /\ enabled' = FALSE
    /\ StartThread("on_my_location", "")

\* on_units(idx)
on_units(idx) ==
    /\ units' = IF idx = 0 THEN "metric" ELSE "imperial"
    /\ IF city_label # ""
         THEN on_search(city_label)
         ELSE UNCHANGED <<enabled, threads, started_view, last_handled>>

\* the user edits the search box
EditSearch ==
    /\ UserCanAct
    /\ \E s \in SearchTexts : s # search_text /\ search_text' = s
    /\ UNCHANGED <<client_vars, qr_vars, enabled, units, tzname, city_label, view, threads,
                   signals, dialogs, ui_requests, started_view, last_handled>>

\* btn_search.clicked / search.returnPressed
ClickSearch ==
    /\ UserCanAct
    /\ Len(threads) < MaxFetches
    /\ on_search("")
    /\ UNCHANGED <<client_vars, qr_vars, units, tzname, city_label, search_text, view,
                   signals, dialogs, ui_requests>>

\* btn_loc.clicked
ClickMyLocation ==
    /\ UserCanAct
    /\ Len(threads) < MaxFetches
    /\ on_my_location
    /\ UNCHANGED <<client_vars, qr_vars, units, tzname, city_label, search_text, view,
                   signals, dialogs, ui_requests>>

\* unit_box.currentIndexChanged: the user picks the other unit
ChangeUnits ==
    /\ UserCanAct
    /\ city_label = "" \/ Len(threads) < MaxFetches
    /\ on_units(IF units = "metric" THEN 1 ELSE 0)
    /\ UNCHANGED <<client_vars, qr_vars, tzname, city_label, search_text, view,
                   signals, dialogs, ui_requests>>

\* ---------------------------------------------------- the worker thread
\* run() with the exception swallowed: nothing is emitted when fn raises
RunEmitsQuiet(i, out) ==
    IF out.ok
      THEN <<[sig |-> "result", src |-> i, payload |-> out.val, msg |-> ""]>>
      ELSE <<>>

\* FetchThread.run: what it emits for the outcome of self.fn(): result(res)
\* when fn returned res, error(str(e)) when it raised e
RunEmits(i, out) ==
    IF out.ok
      THEN <<[sig |-> "result", src |-> i, payload |-> out.val, msg |-> ""]>>
      ELSE <<[sig |-> "error", src |-> i, payload |-> NoPayload, msg |-> out.msg]>>

\* the call the task issued last
LastCall(t) == IF t.calls = <<>> THEN "" ELSE t.calls[Len(t.calls)]

NumberOf(em, sig) == Cardinality({k \in 1..Len(em) : em[k].sig = sig})

\* the task goes on to its next call
Continue(i, t) ==
    /\ threads' = [threads EXCEPT ![i] = t]
    /\ UNCHANGED signals

\* the task returned or raised: run() emits and the thread ends
Finish(i, t, out) ==
    LET em == RunEmits(i, out) IN
    /\ threads' = [threads EXCEPT ![i] =
                     [t EXCEPT !.pc = "done",
                               !.failed = IF out.ok THEN "" ELSE LastCall(t),
                               !.nresult = @ + NumberOf(em, "result"),
                               !.nerror = @ + NumberOf(em, "error")]]
    /\ signals' = signals \o em

UiUnchanged ==
    UNCHANGED <<client_vars, qr_vars, enabled, units, tzname, city_label, search_text,
                view, dialogs, ui_requests, started_view, last_handled>>

\* on_search.task: lat, lon, label = self.client.geocode(q)
TaskGeocode(i) ==
    LET t == threads[i] IN
    /\ t.fn = "on_search" /\ t.pc = "locate"
    /\ \E r \in GeoAppResponses :
         LET g == geocode(r)
             t1 == [t EXCEPT !.calls = Append(@, "geocode")]
         IN  IF g.ok
               THEN Continue(i, [t1 EXCEPT !.pc = "current", !.lat = g.val.lat,
                                           !.lon = g.val.lon, !.label = g.val.label])
               ELSE Finish(i, t1, g)
    /\ UiUnchanged

\* on_my_location.task: loc = ip_location(); raise if not loc; lat, lon, label
TaskIpLocation(i) ==
    LET t == threads[i] IN
    /\ t.fn = "on_my_location" /\ t.pc = "locate"
    /\ \E r \in IpAppResponses :
         LET l == ip_location(r)
             t1 == [t EXCEPT !.calls = Append(@, "ip_location"), !.reply = r]
         IN  IF ~l.ok THEN Finish(i, t1, l)
             ELSE IF ~Truthy(l.val)
               THEN Finish(i, [t1 EXCEPT !.loc = l.val],
                           Raise("Couldn't detect your location. Try searching a city."))
             ELSE Continue(i, [t1 EXCEPT !.pc = "current", !.loc = l.val,
                                         !.lat = l.val.v.lat, !.lon = l.val.v.lon,
                                         !.label = Label(l.val.v.city, l.val.v.country),
                                         !.tz = l.val.v.timezone])
    /\ UiUnchanged

\* a task that goes on to the forecast although current() raised
TaskCurrentGoesOn(i) ==
    LET t == threads[i] IN
    /\ t.pc = "current"
    /\ \E r \in CurrentAppResponses :
         LET c == current(r)
             t1 == [t EXCEPT !.calls = Append(@, "current")]
         IN  IF c.ok
               THEN Continue(i, [t1 EXCEPT !.pc = "forecast", !.curr = c.val])
               ELSE Continue(i, [t1 EXCEPT !.pc = "forecast", !.failed = "current"])
    /\ UiUnchanged

\* task: curr = self.client.current(lat, lon, self.units)
TaskCurrent(i) ==
    LET t == threads[i] IN
    /\ t.pc = "current"
    /\ \E r \in CurrentAppResponses :
         LET c == current(r)
             t1 == [t EXCEPT !.calls = Append(@, "current")]
         IN  IF c.ok
               THEN Continue(i, [t1 EXCEPT !.pc = "forecast", !.curr = c.val])
               ELSE Finish(i, t1, c)
    /\ UiUnchanged

\* task: fc = self.client.forecast_5day(lat, lon, self.units)
TaskForecast(i) ==
    LET t == threads[i] IN
    /\ t.pc = "forecast"
    /\ \E r \in ForecastAppResponses :
         LET f == forecast_5day(r)
             t1 == [t EXCEPT !.calls = Append(@, "forecast_5day")]
         IN  IF f.ok
               THEN Continue(i, [t1 EXCEPT !.pc = "alerts", !.fc = f.val])
               ELSE Finish(i, t1, f)
    /\ UiUnchanged

\* task: alerts = self.client.alerts(lat, lon); return {...}
TaskAlerts(i) ==
    LET t == threads[i] IN
    /\ t.pc = "alerts"
    /\ \E r30 \in AlertAppResponses :
       \E r25 \in IF OneCall30(r30).done THEN {NoReply} ELSE AlertAppResponses :
         LET a == alerts(r30, r25)
             t1 == [t EXCEPT !.calls = Append(@, "alerts")]
         IN  IF a.ok
               THEN Finish(i, t1, Return([lat |-> t.lat, lon |-> t.lon,
                                          label |-> t.label, current |-> t.curr,
                                          forecast |-> t.fc, alerts |-> a.val,
                                          tz |-> t.tz]))
               ELSE Finish(i, t1, a)
    /\ UiUnchanged

\* ------------------------------------------------------ the UI's slots
\* a fail() that also resets the header to its blank state
fail_clears(msg) ==
    /\ enabled' = TRUE
    /\ dialogs' = Append(dialogs, msg)
    /\ city_label' = ""
    /\ view' = [view EXCEPT !.lbl_city = "--"]
    /\ UNCHANGED <<units, tzname, search_text, ui_requests>>

\* a fail() that shows the message and leaves the window disabled
fail_stays_disabled(msg) ==
    /\ enabled' = enabled
    /\ dialogs' = Append(dialogs, msg)
    /\ UNCHANGED <<units, tzname, city_label, search_text, view, ui_requests>>

\* fail(msg): setEnabled(True); QMessageBox.warning(self, "Error", msg)
fail(msg) ==
    /\ enabled' = TRUE
    /\ dialogs' = Append(dialogs, msg)
    /\ UNCHANGED <<units, tzname, city_label, search_text, view, ui_requests>>

\* _set_icon(label, icon_code): what the label shows; fetched says whether
\* the HTTP request for the icon succeeds
SetIcon(icon_code, fetched) ==
    IF icon_code = "" THEN "" ELSE IF fetched THEN icon_code ELSE ""

\* the icon codes _set_icon requests over HTTP for these codes
IconRequests(codes) == codes \ {""}

\* the alert cards of update_ui
AlertCards(a) ==
    IF a = Null THEN <<"Alerts not available on this API plan for this location.">>
    ELSE IF a = List(<<>>) THEN <<"No active alerts for this area.">>
    ELSE [k \in 1..Len(a.v) |->
            Get(a.v[k], "event", Str("Weather Alert")).v \o " - "
              \o Get(a.v[k], "sender_name", Str("Alert")).v]

\* update_ui(payload); "C"/"F" stand for the degree signs, "--" for the dash
update_ui(payload) ==
    LET curr == payload.current
        fc == payload.forecast
        tz0 == payload.tz
        tz1 == IF tz0 = Null THEN Get(curr, "timezone", Null) ELSE tz0
        name == IF tz1 = Null THEN "UTC" ELSE IF tz1.t = "str" THEN tz1.v ELSE "UTC"
        deg == IF units = "metric" THEN "C" ELSE "F"
        temp == Get(curr, "temp", Null)
        icon == IF Truthy(Get(curr, "icon", Null)) THEN curr.v["icon"].v ELSE ""
    IN  /\ enabled' = TRUE
        /\ tzname' = name
        /\ IF name \notin KnownZones
             \* pytz.timezone raises UnknownTimeZoneError: the slot ends here
             THEN UNCHANGED <<city_label, view, ui_requests>>
             ELSE \E fetched \in BOOLEAN :
                    /\ city_label' = payload.label
                    /\ view' =
                         [lbl_city |-> payload.label,
                          lbl_temp |-> IF temp.t = "num"
                                         THEN ToString(Round(temp.v)) \o deg
                                         ELSE "--" \o deg,
                          icon_label |-> SetIcon(icon, fetched),
                          fc_cards |-> [k \in 1..Len(fc) |->
                                          [title |-> fc[k].date,
                                           icon |-> SetIcon(fc[k].icon, fetched),
                                           desc |-> fc[k].desc,
                                           temps |-> ToString(fc[k].tmin) \o deg \o " / "
                                                       \o ToString(fc[k].tmax) \o deg]],
                          al_cards |-> AlertCards(payload.alerts)]
                    /\ ui_requests' = ui_requests \cup
                         IconRequests({icon} \cup {fc[k].icon : k \in 1..Len(fc)})
        /\ UNCHANGED <<units, search_text, dialogs>>

\* the event loop delivers a queued error signal to fail
DeliverError ==
    /\ signals # <<>>
    /\ Head(signals).sig = "error"
    /\ fail(Head(signals).msg)
    /\ signals' = Tail(signals)
    /\ threads' = [threads EXCEPT ![Head(signals).src] =
                     Handled(@, "error", Len(dialogs') - Len(dialogs))]
    /\ last_handled' = "error"
    /\ UNCHANGED <<client_vars, qr_vars, started_view>>

\* the event loop delivers a queued result signal to update_ui
DeliverResult ==
    /\ signals # <<>>
    /\ Head(signals).sig = "result"
    /\ update_ui(Head(signals).payload)
    /\ signals' = Tail(signals)
    /\ threads' = [threads EXCEPT ![Head(signals).src] =
                     Handled(@, "result", Len(dialogs') - Len(dialogs))]
    /\ last_handled' = "result"
    /\ started_view' = NoDisplay
    /\ UNCHANGED <<client_vars, qr_vars>>

\* the user closes the innermost warning dialog
DismissDialog ==
    /\ dialogs # <<>>
    /\ dialogs' = SubSeq(dialogs, 1, Len(dialogs) - 1)
    /\ UNCHANGED <<client_vars, qr_vars, enabled, units, tzname, city_label, search_text,
                   view, threads, signals, ui_requests, started_view, last_handled>>

\* ============================================== the QR generator (qr.py)
\* number of files one run of the QR generator may write
MaxSaves == 1
\* the seconds datetime.now() may fall on during one run, less one
MaxClock == 1

\* self.current_qr = None
NoImage == [t |-> "none"]
\* the PIL image generate_qr builds from the text and the fill colour
Image(text, fill) == [t |-> "image", text |-> text, fill |-> fill]

\* os.path.expanduser("~/Documents/QR Codes")
DefaultDir == "~/Documents/QR Codes"
\* the directories QFileDialog.getExistingDirectory() can return; "" is a
\* cancelled dialog
Directories == {"", "~/Desktop"}
\* os.path.join(directory, name)
Path(dir, name) == dir \o "/" \o name
\* f"{base_filename}.{file_ext}"
FileName(base, ext) == base \o "." \o ext
\* f"{base_filename}_{counter}.{file_ext}"
NumberedName(base, counter, ext) == base \o "_" \o ToString(counter) \o "." \o ext

\* the texts the user types into input_field and into filename_edit
InputTexts == {"", "  ", " hi "}
FilenameTexts == {"", " qrcode_1 "}
\* str.strip() on these texts
StripText(s) ==
    CASE s = "  " -> ""
      [] s = " hi " -> "hi"
      [] s = " qrcode_1 " -> "qrcode_1"
      [] OTHER -> s

\* the colours QColorDialog.getColor() can return; "" is a cancelled dialog
Colours == {"", "blue"}
\* format_combo items, and format_name.lower()
Formats == {"PNG", "JPEG"}
Lower(format_name) == IF format_name = "PNG" THEN "png" ELSE "jpeg"

\* datetime.now().strftime("%Y%m%d_%H%M%S") with the clock at second c
Timestamp(c) == "20261104_07550" \o ToString(c)

\* what the save directory may hold when the program starts: any of these
\* paths, each with a content that is not an image of this run
InitialPaths ==
    { Path(DefaultDir, "qrcode.png"), Path(DefaultDir, "qrcode_1.png"),
      Path(DefaultDir, "qrcode_2.png") }
OldContent == [t |-> "old"]
InitialFiles ==
    UNION {[D -> {OldContent}] :
             D \in { {}, {Path(DefaultDir, "qrcode.png")},
                     {Path(DefaultDir, "qrcode.png"), Path(DefaultDir, "qrcode_1.png")},
                     {Path(DefaultDir, "qrcode.png"), Path(DefaultDir, "qrcode_2.png")},
                     InitialPaths }}
NoFiles == [p \in {} |-> OldContent]

\* img.save(file_path, ...): the file system with the image stored at path
Saved(fs, path, img) == [p \in DOMAIN fs \cup {path} |-> IF p = path THEN img ELSE fs[p]]
\* os.path.exists(path)
Exists(fs, path) == path \in DOMAIN fs

\* the window initUI builds; message_box is the title of the open modal
\* QMessageBox ("" when none is open); pc, base_filename, file_ext, file_path
\* and counter are the position and the locals of a running save_qr
InitGenerator ==
    [input_text |-> "", qr_color |-> "red", current_qr |-> NoImage,
     save_btn |-> FALSE, save_as_btn |-> FALSE,
     status_label |-> "Ready to generate QR code",
     auto_name |-> TRUE, filename_edit |-> "", format_combo |-> "PNG",
     current_save_dir |-> DefaultDir, message_box |-> "",
     pc |-> "idle", base_filename |-> "", file_ext |-> "", file_path |-> "",
     counter |-> 0]

InitQR ==
    /\ generator = InitGenerator
    /\ saves = 0

\* the event loop runs one handler at a time, and a modal message box takes
\* the input: the user acts on the window between handlers, no box open
Idle == generator.pc = "idle" /\ generator.message_box = ""

\* a generate_qr() that enables the save buttons before it builds the image
generate_qr_eager(g, fail_at) ==
    LET text == StripText(g.input_text)
        img == Image(text, g.qr_color)
        e == [g EXCEPT !.save_btn = TRUE, !.save_as_btn = TRUE]
    IN  IF text = "" THEN [g EXCEPT !.message_box = "Input Error"]
        ELSE IF fail_at = "before" THEN [e EXCEPT !.message_box = "Generation Error"]
        ELSE IF fail_at = "after"
          THEN [e EXCEPT !.current_qr = img, !.message_box = "Generation Error"]
        ELSE [e EXCEPT !.current_qr = img,
                       !.status_label = "QR code generated successfully. Ready to save."]

\* generate_qr(): fail_at is where the try block raises ("none": nowhere,
\* "before": up to the resize, "after": once current_qr is assigned); the
\* handler goes on when its message box is closed (CloseMessageBox)
generate_qr(g, fail_at) ==
    LET text == StripText(g.input_text)
        img == Image(text, g.qr_color)
    IN  IF text = "" THEN [g EXCEPT !.message_box = "Input Error"]
        ELSE IF fail_at = "before" THEN [g EXCEPT !.message_box = "Generation Error"]
        ELSE IF fail_at = "after"
          THEN [g EXCEPT !.current_qr = img, !.message_box = "Generation Error"]
        ELSE [g EXCEPT !.current_qr = img, !.save_btn = TRUE, !.save_as_btn = TRUE,
                       !.status_label = "QR code generated successfully. Ready to save."]

\* the user closes the open message box and the handler that opened it runs
\* to its end: after a critical box the status line is set
CloseMessageBox ==
    /\ generator.message_box # ""
    /\ generator' =
         [generator EXCEPT
            !.message_box = "",
            !.status_label =
               CASE generator.message_box = "Generation Error" -> "Error generating QR code."
                 [] generator.message_box = "Save Error" -> "Error saving QR code."
                 [] OTHER -> @]
    /\ UNCHANGED <<client_vars, app_vars, files, saves>>

\* generate_filename(), called when datetime.now() is the second now
generate_filename(g, now) ==
    IF g.auto_name THEN "qrcode_" \o Timestamp(now)
    ELSE LET filename == StripText(g.filename_edit)
         IN  IF filename # "" THEN filename ELSE "qrcode"

\* the locals of save_qr once it has returned
Returned(g) ==
    [g EXCEPT !.pc = "idle", !.base_filename = "", !.file_ext = "", !.file_path = "",
              !.counter = 0]

\* save_qr() up to the loop: the early return, else the first candidate path
save_qr(g, now) ==
    IF g.current_qr = NoImage THEN g
    ELSE LET base_filename == generate_filename(g, now)
             file_ext == Lower(g.format_combo)
         IN  [g EXCEPT !.pc = "loop", !.base_filename = base_filename,
                       !.file_ext = file_ext,
                       !.file_path = Path(g.current_save_dir,
                                          FileName(base_filename, file_ext)),
                       !.counter = 1]

\* a loop that gives up probing once one numbered name was tried
LoopExitsEarly(g, fs) == ~Exists(fs, g.file_path) \/ g.counter > 1

\* while os.path.exists(file_path): the loop is left when the path is free
LoopExits(g, fs) == ~Exists(fs, g.file_path)

\* the body of the loop: the next numbered candidate
NextCandidate(g) ==
    [g EXCEPT !.file_path = Path(g.current_save_dir,
                                 NumberedName(g.base_filename, g.counter, g.file_ext)),
              !.counter = g.counter + 1]

\* os.path.basename(file_path) of the path the loop ended on
BaseName(g) ==
    IF g.counter = 1 THEN FileName(g.base_filename, g.file_ext)
    ELSE NumberedName(g.base_filename, g.counter - 1, g.file_ext)

\* the user types into the text field
EditInput ==
    /\ Idle
    /\ \E s \in InputTexts :
         /\ s # generator.input_text
         /\ generator' = [generator EXCEPT !.input_text = s]
    /\ UNCHANGED <<client_vars, app_vars, files, saves>>

\* generate_btn.clicked
ClickGenerate ==
    /\ Idle
    /\ \E fail_at \in {"none", "before", "after"} :
         generator' = generate_qr(generator, fail_at)
    /\ UNCHANGED <<client_vars, app_vars, files, saves>>

\* color_btn.clicked: choose_color()
ChooseColour ==
    /\ Idle
    /\ \E colour \in Colours :
         generator' = IF colour # "" THEN [generator EXCEPT !.qr_color = colour]
                      ELSE generator
    /\ UNCHANGED <<client_vars, app_vars, files, saves>>

\* auto_name.stateChanged: toggle_filename_edit (the edit is enabled exactly
\* when the box is unchecked)
ToggleAutoName ==
    /\ Idle
    /\ generator' = [generator EXCEPT !.auto_name = ~@]
    /\ UNCHANGED <<client_vars, app_vars, files, saves>>

\* the user types into filename_edit, which is enabled
EditFilename ==
    /\ Idle
    /\ ~generator.auto_name
    /\ \E s \in FilenameTexts :
         /\ s # generator.filename_edit
         /\ generator' = [generator EXCEPT !.filename_edit = s]
    /\ UNCHANGED <<client_vars, app_vars, files, saves>>

\* dir_btn.clicked: choose_save_directory()
choose_save_directory(g, directory) ==
    IF directory # "" THEN [g EXCEPT !.current_save_dir = directory] ELSE g

ChooseDirectory ==
    /\ Idle
    /\ \E directory \in Directories :
         generator' = choose_save_directory(generator, directory)
    /\ UNCHANGED <<client_vars, app_vars, files, saves>>

\* the user picks the other item of format_combo
ChooseFormat ==
    /\ Idle
    /\ \E f \in Formats :
         /\ f # generator.format_combo
         /\ generator' = [generator EXCEPT !.format_combo = f]
    /\ UNCHANGED <<client_vars, app_vars, files, saves>>

\* save_btn.clicked: save_qr() up to its loop
ClickSave ==
    /\ Idle
    /\ generator.save_btn
    /\ saves < MaxSaves
    /\ \E now \in 0..MaxClock : generator' = save_qr(generator, now)
    /\ UNCHANGED <<client_vars, app_vars, files, saves>>

\* one iteration of the conflict loop of save_qr
SaveProbe ==
    /\ generator.pc = "loop"
    /\ ~LoopExits(generator, files)
    /\ generator' = NextCandidate(generator)
    /\ UNCHANGED <<client_vars, app_vars, files, saves>>

\* save_qr() after its loop: the image is saved, or the save raises
SaveWrite ==
    /\ generator.pc = "loop"
    /\ LoopExits(generator, files)
    /\ \E saved \in BOOLEAN :
         IF saved
           THEN /\ files' = Saved(files, generator.file_path, generator.current_qr)
                /\ saves' = saves + 1
                /\ generator' = Returned([generator EXCEPT
                                   !.status_label = "QR code saved to: " \o BaseName(generator),
                                   !.message_box = "Success"])
           ELSE /\ generator' = Returned([generator EXCEPT !.message_box = "Save Error"])
                /\ UNCHANGED <<files, saves>>
    /\ UNCHANGED <<client_vars, app_vars>>

\* save_qr_as(g, fs, dir, name, saved): the file dialog returns the path
\* os.path.join(dir, name), or "" (name = "") when cancelled; saved is
\* whether the save succeeds; the result is the window and the file system
\* it leaves
save_qr_as(g, fs, dir, name, saved) ==
    IF g.current_qr = NoImage THEN [g |-> g, fs |-> fs]
    ELSE IF name = "" THEN [g |-> g, fs |-> fs]
    ELSE IF saved
      THEN [g |-> [g EXCEPT !.status_label = "QR code saved to: " \o name,
                            !.message_box = "Success"],
            fs |-> Saved(fs, Path(dir, name), g.current_qr)]
      ELSE [g |-> [g EXCEPT !.message_box = "Save Error"], fs |-> fs]

\* save_as_btn.clicked; the dialog offers the suggested name and lets the
\* user pick any path, an existing file included
ClickSaveAs ==
    /\ Idle
    /\ generator.save_as_btn
    /\ saves < MaxSaves
    /\ \E now \in 0..MaxClock :
       LET suggested == FileName(generate_filename(generator, now),
                                 Lower(generator.format_combo))
       IN  \E name \in {"", suggested, "qrcode.png"} :
           \E saved \in BOOLEAN :
             LET r == save_qr_as(generator, files, generator.current_save_dir,
                                 name, saved) IN
             /\ generator' = r.g
             /\ files' = r.fs
             /\ saves' = IF r.fs # files THEN saves + 1 ELSE saves
    /\ UNCHANGED <<client_vars, app_vars>>

\* ------------------------------------- specification of the QR generator
InitQRApp ==
    /\ call = Call("none", NetError, NetError)
    /\ ret = NotCalled
    /\ InitApp
    /\ InitQR
    /\ files \in InitialFiles

NextQR ==
    \/ EditInput
    \/ ClickGenerate
    \/ CloseMessageBox
    \/ ChooseColour
    \/ ToggleAutoName
    \/ EditFilename
    \/ ChooseFormat
    \/ ChooseDirectory
    \/ ClickSave
    \/ SaveProbe
    \/ SaveWrite
    \/ ClickSaveAs

SpecQR == InitQRApp /\ [][NextQR]_vars

\* ---------------------------------------- specification of the application
Init ==
    /\ call = Call("none", NetError, NetError)
    /\ ret = NotCalled
    /\ InitApp
    /\ InitQR /\ files = NoFiles

Next ==
    \/ EditSearch
    \/ ClickSearch
    \/ ClickMyLocation
    \/ ChangeUnits
    \/ \E i \in 1..Len(threads) : TaskGeocode(i)
    \/ \E i \in 1..Len(threads) : TaskIpLocation(i)
    \/ \E i \in 1..Len(threads) : TaskCurrent(i)
    \/ \E i \in 1..Len(threads) : TaskForecast(i)
    \/ \E i \in 1..Len(threads) : TaskAlerts(i)
    \/ DeliverError
    \/ DeliverResult
    \/ DismissDialog

Spec == Init /\ [][Next]_vars

\* -------------------------- the application under its scheduling guarantees
\* the next step of worker thread i: its pending network call returns or
\* times out (TIMEOUT = 12 s) and the task goes on or ends
Worker(i) ==
    /\ i <= Len(threads)
    /\ \/ TaskGeocode(i)
       \/ TaskIpLocation(i)
       \/ TaskCurrent(i)
       \/ TaskForecast(i)
       \/ TaskAlerts(i)

\* the Qt event loop (app.exec(), and the nested loop of an open message
\* box) takes the next queued signal
EventLoop == DeliverError \/ DeliverResult

\* a started thread keeps running and the event loop keeps dispatching; the
\* user is under no obligation to act
SpecLive ==
    /\ Init /\ [][Next]_vars
    /\ \A i \in 1..MaxFetches : WF_vars(Worker(i))
    /\ WF_vars(EventLoop)

\* ------------------------------------- specification of the client calls
InitClient ==
    /\ call \in ClientCalls
    /\ ret = NotCalled
    /\ InitApp
    /\ InitQR /\ files = NoFiles

CallGeocode ==
    /\ call.fn = "geocode" /\ ret = NotCalled
    /\ ret' = geocode(call.resp)
    /\ UNCHANGED <<call, app_vars, qr_vars>>

CallCurrent ==
    /\ call.fn = "current" /\ ret = NotCalled
    /\ ret' = current(call.resp)
    /\ UNCHANGED <<call, app_vars, qr_vars>>

CallForecast ==
    /\ call.fn = "forecast_5day" /\ ret = NotCalled
    /\ ret' = forecast_5day(call.resp)
    /\ UNCHANGED <<call, app_vars, qr_vars>>

CallAlerts ==
    /\ call.fn = "alerts" /\ ret = NotCalled
    /\ ret' = alerts(call.resp, call.resp2)
    /\ UNCHANGED <<call, app_vars, qr_vars>>

CallIpLocation ==
    /\ call.fn = "ip_location" /\ ret = NotCalled
    /\ ret' = ip_location(call.resp)
    /\ UNCHANGED <<call, app_vars, qr_vars>>

NextClient ==
    \/ CallGeocode
    \/ CallCurrent
    \/ CallForecast
    \/ CallAlerts
    \/ CallIpLocation

SpecClient == InitClient /\ [][NextClient]_vars

\* ============================================================ properties
\* the sample list a forecast call was given
ForecastInput == Get(call.resp.body, "list", List(<<>>)).v

\* a forecast_5day call that returned its list of daily entries
ForecastReturned == call.fn = "forecast_5day" /\ ret # NotCalled /\ ret.ok

\* C1: the list forecast_5day returns has at most 5 daily entries and its
\* dates are strictly ascending (so no date occurs twice)
C1_AtMostFiveAscending ==
    ForecastReturned =>
        /\ Len(ret.val) <= 5
        /\ \A i \in 1..Len(ret.val) : \A j \in 1..Len(ret.val) :
             i < j => DateLess(ret.val[i].date, ret.val[j].date)

\* six samples on six dates, not in date order, cut to five entries
C1_Witness ==
    /\ ForecastReturned
    /\ Len(ForecastInput) = 6
    /\ DateLess(DateKey(ForecastInput[2].dt), DateKey(ForecastInput[1].dt))
    /\ Len(ret.val) = 5

\* ---- C2
\* the reply is a 200 whose body is a JSON object
Ok200Dict(r) == r.kind = "http" /\ r.status = 200 /\ r.body.t = "obj"
HasAlertsList(r) ==
    Ok200Dict(r) /\ "alerts" \in DOMAIN r.body.v /\ r.body.v["alerts"].t = "list"
YieldsNonEmptyList(r) == HasAlertsList(r) /\ Len(r.body.v["alerts"].v) > 0
YieldsExplicitEmpty(r) == HasAlertsList(r) /\ Len(r.body.v["alerts"].v) = 0
\* the reply failed, or carries ambiguous or absent alert data
FailedOrAmbiguous(r) == ~YieldsNonEmptyList(r) /\ ~YieldsExplicitEmpty(r)

AlertsReturned == call.fn = "alerts" /\ ret # NotCalled

\* C2: alerts returns the non-empty list the primary endpoint yields, [] when
\* the primary yields an explicit empty list, and None when both endpoints
\* fail or return ambiguous or absent data (a 200 body without an alerts
\* field included)
C2_TriState ==
    AlertsReturned =>
        /\ YieldsNonEmptyList(call.resp) => ret.val = call.resp.body.v["alerts"]
        /\ YieldsExplicitEmpty(call.resp) => ret.val = List(<<>>)
        /\ FailedOrAmbiguous(call.resp) /\ FailedOrAmbiguous(call.resp2)
             => ret.val = Null

\* ---- C7
GeocodeReturned == call.fn = "geocode" /\ ret # NotCalled
\* the geocoding reply is a successful one carrying a result set
HasResultSet(r) ==
    r.kind = "http" /\ r.status < 400 /\ r.body.t = "list"
\* the first candidate carries its coordinates and its name
FirstCandidate(r) == r.body.v[1]
WellFormed(g) == g.t = "obj" /\ {"lat", "lon", "name"} \subseteq DOMAIN g.v

\* C7: geocode fails when the result set is empty; otherwise it returns the
\* first candidate's lat and lon, with the label name + ", " + country when
\* country is present and non-empty and the name alone when country is absent
C7_Geocode ==
    GeocodeReturned /\ HasResultSet(call.resp) =>
        IF call.resp.body.v = <<>> THEN ~ret.ok
        ELSE LET g == FirstCandidate(call.resp) IN
             WellFormed(g) =>
                 /\ ret.ok
                 /\ ret.val.lat = g.v["lat"] /\ ret.val.lon = g.v["lon"]
                 /\ "country" \notin DOMAIN g.v => ret.val.label = g.v["name"].v
                 /\ ("country" \in DOMAIN g.v /\ g.v["country"].t = "str"
                       /\ g.v["country"].v # "")
                      => ret.val.label = g.v["name"].v \o ", " \o g.v["country"].v

\* a candidate without a country was geocoded
C7_Witness ==
    /\ GeocodeReturned /\ HasResultSet(call.resp) /\ call.resp.body.v # <<>>
    /\ WellFormed(FirstCandidate(call.resp))
    /\ "country" \notin DOMAIN FirstCandidate(call.resp).v
    /\ ret.ok /\ ret.val.label = "Paris"

\* ---- C9
\* all samples of the input share one UTC date
OneDate(list) ==
    /\ list # <<>>
    /\ \A i \in 1..Len(list) : UtcDay(list[i].dt) = UtcDay(list[1].dt)
\* n is a nearest integer to t tenths
IsNearest(n, t) == 10 * n - t <= 5 /\ t - 10 * n <= 5
LeastMin(list) ==
    CHOOSE x \in {list[i].temp_min : i \in 1..Len(list)} :
        \A i \in 1..Len(list) : x <= list[i].temp_min
GreatestMax(list) ==
    CHOOSE x \in {list[i].temp_max : i \in 1..Len(list)} :
        \A i \in 1..Len(list) : x >= list[i].temp_max

\* C9: for samples sharing one UTC date the entry's tmin is the minimum of the
\* temp_min values and tmax the maximum of the temp_max values, each rounded
\* to the nearest integer, so tmin <= tmax when every sample has
\* temp_min <= temp_max
C9_MinMaxRounded ==
    ForecastReturned /\ OneDate(ForecastInput) =>
        /\ Len(ret.val) = 1
        /\ IsNearest(ret.val[1].tmin, LeastMin(ForecastInput))
        /\ IsNearest(ret.val[1].tmax, GreatestMax(ForecastInput))
        /\ (\A i \in 1..Len(ForecastInput) :
              ForecastInput[i].temp_min <= ForecastInput[i].temp_max)
             => ret.val[1].tmin <= ret.val[1].tmax

\* two samples of one date whose least temp_min is not a whole degree
C9_Witness ==
    /\ ForecastReturned /\ OneDate(ForecastInput)
    /\ Len(ForecastInput) >= 2
    /\ LeastMin(ForecastInput) = 12
    /\ GreatestMax(ForecastInput) = 27
    /\ ret.val[1].tmin = 1 /\ ret.val[1].tmax = 3

\* ---- C10
\* the samples of the input on the date of entry e, in input order
GroupOf(list, e) ==
    LET idx == {i \in 1..Len(list) : DateKey(list[i].dt) = e.date} IN
    [i \in idx |-> list[i]]
\* the first sample of the input on e's date whose UTC hour is 12
FirstNoonIndex(list, e) ==
    CHOOSE i \in DOMAIN GroupOf(list, e) :
        /\ UtcHour(list[i].dt) = 12
        /\ \A j \in DOMAIN GroupOf(list, e) : UtcHour(list[j].dt) = 12 => i <= j
HasNoon(list, e) == \E i \in DOMAIN GroupOf(list, e) : UtcHour(list[i].dt) = 12

\* C10: the entry of a date group holding an hour-12 sample takes its icon
\* and its (title-cased) description from the first such sample in input
\* order, however frequent other icons or descriptions are in the group
C10_NoonSample ==
    ForecastReturned =>
        \A k \in 1..Len(ret.val) :
            HasNoon(ForecastInput, ret.val[k]) =>
                LET s == ForecastInput[FirstNoonIndex(ForecastInput, ret.val[k])] IN
                /\ ret.val[k].icon = s.icon
                /\ ret.val[k].desc = Title(s.description)

\* a group of three whose single noon sample carries the rarer icon
C10_Witness ==
    /\ ForecastReturned
    /\ Len(ForecastInput) = 3 /\ OneDate(ForecastInput)
    /\ UtcHour(ForecastInput[1].dt) = 9 /\ ForecastInput[1].icon = "01d"
    /\ UtcHour(ForecastInput[2].dt) = 9 /\ ForecastInput[2].icon = "01d"
    /\ UtcHour(ForecastInput[3].dt) = 12 /\ ForecastInput[3].icon = "10d"
    /\ ret.val[1].icon = "10d" /\ ret.val[1].desc = "Light Rain"

\* ---- the application
ThreadIds == 1..Len(threads)
\* the queued signals thread i emitted
SignalsOf(i) == {k \in 1..Len(signals) : signals[k].src = i}
\* str(e) of what current() can raise on the application's replies
CurrentErrors == {"ConnectionError", "Invalid API key"}

\* C3: a run of a FetchThread emits exactly one signal, result if the task
\* returned and error if it raised, never both and never neither, and the UI
\* shows one message for an error; a task whose current() call failed ends
\* in one error carrying the exception's message and in no result
C3_ExactlyOneSignal ==
    \A i \in ThreadIds :
        LET t == threads[i] IN
        /\ t.pc # "done" => t.nresult = 0 /\ t.nerror = 0 /\ SignalsOf(i) = {}
        /\ t.pc = "done" => t.nresult + t.nerror = 1
        /\ t.pc = "done" /\ t.handled = "no" =>
             /\ Cardinality(SignalsOf(i)) = 1
             /\ \A k \in SignalsOf(i) :
                  signals[k].sig = IF t.nresult = 1 THEN "result" ELSE "error"
        /\ t.handled = "error" => t.nerror = 1 /\ t.nresult = 0 /\ t.nmsg = 1
        /\ t.handled = "result" => t.nresult = 1 /\ t.nerror = 0 /\ t.nmsg = 0
        /\ t.pc = "done" /\ LastCall(t) = "current" =>
             /\ t.nerror = 1 /\ t.nresult = 0
             /\ \A k \in SignalsOf(i) :
                  signals[k].sig = "error" /\ signals[k].msg \in CurrentErrors

\* a search whose current() call raised the provider's message
C3_Witness ==
    \E i \in ThreadIds :
        /\ threads[i].calls = <<"geocode", "current">>
        /\ threads[i].pc = "done" /\ threads[i].nerror = 1
        /\ \E k \in SignalsOf(i) : signals[k].msg = "Invalid API key"

\* the fetches whose signal the UI has not handled yet
Outstanding == {i \in ThreadIds : threads[i].handled = "no"}

\* C4: the UI is disabled from the start of a fetch until its result or error
\* is handled, so at most one fetch is outstanding at any time
C4_OneFetchOutstanding ==
    /\ Cardinality(Outstanding) <= 1
    /\ Outstanding # {} => ~enabled

\* a fetch the user started by a search is in flight
C4_Witness ==
    /\ Len(threads) = 2
    /\ threads[2].fn = "on_search" /\ threads[2].pc = "forecast"
    /\ threads[1].handled # "no"
    /\ ~enabled

\* C5: a fetch that ends in an error changes nothing displayed: while it runs
\* and after fail() handled its error, city_label, tzname, the labels and
\* the cards are as they were when the fetch started
C5_ErrorLeavesDisplay ==
    last_handled \in {"none", "error"} => Display = started_view

\* a failed fetch handled after an earlier one had filled the display
C5_Witness ==
    /\ last_handled = "error"
    /\ enabled
    /\ city_label # "" /\ view.fc_cards # <<>>
    /\ dialogs # <<>>

\* C6: alerts never raises: a task that reached its alerts call returns, so
\* the fetch ends in a result whatever the two alert endpoints reply
C6_AlertsAbsorbed ==
    \A i \in ThreadIds :
        LET t == threads[i] IN
        LastCall(t) = "alerts" =>
            /\ t.pc = "done" /\ t.nresult = 1 /\ t.nerror = 0
            /\ \A k \in SignalsOf(i) : signals[k].sig = "result"

\* both alert endpoints failed and the fetch still delivered its result
C6_Witness ==
    \E k \in 1..Len(signals) :
        /\ signals[k].sig = "result"
        /\ signals[k].payload.alerts = Null
        /\ threads[signals[k].src].calls = <<"geocode", "current", "forecast_5day", "alerts">>

\* the IP reply carries both coordinates
HasBothCoordinates(r) ==
    /\ r.kind = "http" /\ r.status < 400 /\ r.body.t = "obj"
    /\ "lat" \in DOMAIN r.body.v /\ "lon" \in DOMAIN r.body.v
CouldNotLocate == "Couldn't detect your location. Try searching a city."

GroupIcons(list, e) == [i \in DOMAIN GroupOf(list, e) |-> list[i].icon]
GroupDescs(list, e) == [i \in DOMAIN GroupOf(list, e) |-> Title(list[i].description)]
\* x occurs in f at least as often as any other value, and among the values
\* occurring as often x is the one met first
FirstMostFrequent(f, x) ==
    LET cnt(y) == Cardinality({i \in DOMAIN f : f[i] = y})
        first == CHOOSE i \in DOMAIN f : f[i] = x /\ \A j \in DOMAIN f : f[j] = x => i <= j
    IN  /\ \E i \in DOMAIN f : f[i] = x
        /\ \A j \in DOMAIN f :
             \/ cnt(f[j]) < cnt(x)
             \/ cnt(f[j]) = cnt(x) /\ first <= j

\* C11: the entry of a date group without an hour-12 sample takes the most
\* frequent icon of the group and the most frequent title-cased description,
\* a tie going to the value met first in input order
C11_MostFrequent ==
    ForecastReturned =>
        \A k \in 1..Len(ret.val) :
            ~HasNoon(ForecastInput, ret.val[k]) =>
                /\ FirstMostFrequent(GroupIcons(ForecastInput, ret.val[k]), ret.val[k].icon)
                /\ FirstMostFrequent(GroupDescs(ForecastInput, ret.val[k]), ret.val[k].desc)

\* a group of two without a noon sample whose icons tie: the first one wins
C11_Witness ==
    /\ ForecastReturned
    /\ Len(ForecastInput) = 2 /\ OneDate(ForecastInput)
    /\ UtcHour(ForecastInput[1].dt) = 9 /\ ForecastInput[1].icon = "10d"
    /\ UtcHour(ForecastInput[2].dt) = 9 /\ ForecastInput[2].icon = "01d"
    /\ ForecastInput[1].description = "light rain"
    /\ ret.val[1].icon = "10d" /\ ret.val[1].desc = "Light Rain"

\* ---- C12
\* a current or forecast_5day call whose reply decoded to a JSON object, so
\* that the status-code field decides the outcome
CodDecides ==
    /\ call.fn \in {"current", "forecast_5day"} /\ ret # NotCalled
    /\ Fetched(call.resp).ok /\ IsDict(Fetched(call.resp).val)

\* C12: on one and the same reply body (cod 200, "200", absent, or a failure
\* code) forecast_5day raises exactly when current raises
C12_SameCondition ==
    CodDecides =>
        /\ call.fn = "forecast_5day" => (ret.ok <=> current(call.resp).ok)
        /\ call.fn = "current" => (ret.ok <=> forecast_5day(call.resp).ok)

\* ---- C13
\* the calls of a complete fetch sequence of the handler fn, in order
FullSequence(fn) ==
    <<IF fn = "on_search" THEN "geocode" ELSE "ip_location",
      "current", "forecast_5day", "alerts">>
\* the call a running task issues next
NextCall(t) ==
    CASE t.pc = "locate" -> 1
      [] t.pc = "current" -> 2
      [] t.pc = "forecast" -> 3
      [] t.pc = "alerts" -> 4

\* C13: the calls a fetch issued are a prefix of locate (geocode or
\* ip_location), current, forecast_5day, alerts, each at most once; a running
\* task has issued exactly the calls before its position; a call that raised
\* is the last call of its fetch, which ends in an error; and only a fetch
\* that issued all four calls ends in a result
C13_CallOrder ==
    \A i \in ThreadIds :
        LET t == threads[i] IN
        /\ Len(t.calls) <= 4
        /\ t.calls = SubSeq(FullSequence(t.fn), 1, Len(t.calls))
        /\ t.pc # "done" => Len(t.calls) = NextCall(t) - 1 /\ t.failed = ""
        /\ t.failed # "" =>
             /\ t.pc = "done" /\ t.nerror = 1 /\ t.nresult = 0
             /\ LastCall(t) = t.failed
        /\ t.pc = "done" /\ t.handled = "no" /\ t.nresult = 1 =>
             t.calls = FullSequence(t.fn)
        /\ t.pc = "done" /\ t.handled = "no" /\ t.nerror = 1 /\ t.failed = "" =>
             t.calls = <<"ip_location">>

\* a search whose forecast call failed: three calls, no alerts call
C13_Witness ==
    \E i \in ThreadIds :
        /\ threads[i].fn = "on_search"
        /\ threads[i].pc = "done" /\ threads[i].failed = "forecast_5day"
        /\ threads[i].calls = <<"geocode", "current", "forecast_5day">>
        /\ threads[i].nerror = 1

\* ---- C14
\* the primary attempt failed: network error, a status other than 200, or a
\* body that is undecodable, not an object, or whose alerts is not a list
PrimaryFailed(r) ==
    \/ r.kind = "neterr"
    \/ r.status # 200
    \/ r.body = Malformed
    \/ ~IsDict(r.body)
    \/ "alerts" \in DOMAIN r.body.v /\ r.body.v["alerts"].t # "list"
\* network error, non-success status or undecodable body
PrimaryBroke(r) == r.kind = "neterr" \/ r.status # 200 \/ r.body = Malformed

\* C14: alerts requests the primary endpoint first, requests the secondary
\* endpoint only after a failed primary attempt (and always after a network
\* error, a non-success status or an undecodable body), and issues at most two
\* requests: one primary, at most one secondary
C14_AlertRequests ==
    AlertsReturned =>
        /\ Len(ret.reqs) \in {1, 2}
        /\ ret.reqs[1] = "OWM_ONECALL_30"
        /\ Len(ret.reqs) = 2 =>
             ret.reqs[2] = "OWM_ONECALL_25" /\ PrimaryFailed(call.resp)
        /\ PrimaryBroke(call.resp) => Len(ret.reqs) = 2

\* the primary answered 401 and the secondary supplied the alerts
C14_Witness ==
    /\ AlertsReturned
    /\ call.resp.kind = "http" /\ call.resp.status = 401
    /\ call.resp2 = Http(200, Obj([alerts |-> List(<<Flood>>)]))
    /\ ret.reqs = <<"OWM_ONECALL_30", "OWM_ONECALL_25">>
    /\ ret.val = List(<<Flood>>)

\* ---- C15
\* C15: no HTTP request is issued from the UI thread: the slots fail and
\* update_ui, the latter while it renders a delivered result included,
\* request nothing over the network
C15_NoUiRequests == ui_requests = {}

\* ---- C16
\* fetch i ended, emitted its single signal, and the UI handled it
Delivered(i) ==
    /\ threads[i].pc = "done" /\ threads[i].handled \in {"result", "error"}
    /\ threads[i].nresult + threads[i].nerror = 1
\* every fetch started so far was delivered
AllDelivered == \A i \in ThreadIds : Delivered(i)

\* C16: every started fetch worker terminates and its single result or error
\* is delivered, and the UI, disabled while a fetch is in flight, is enabled
\* again: at any time there is a later state in which every fetch started so
\* far has been delivered and the UI is enabled, so the UI never stays
\* disabled forever
C16_EventuallyEnabled == []<>(AllDelivered /\ enabled)

\* the second fetch ended, its result was handled, and the UI is enabled
C16_Witness ==
    /\ Len(threads) = 2
    /\ threads[2].pc = "done" /\ threads[2].handled = "result"
    /\ threads[1].handled = "error"
    /\ signals = <<>>
    /\ enabled

\* ---- C17
\* the distinct UTC dates of the samples, and the dates of the entries
InputDates == {DateKey(ForecastInput[i].dt) : i \in 1..Len(ForecastInput)}
EntryDates == {ret.val[k].date : k \in 1..Len(ret.val)}
\* a forecast reply with a success code
ForecastAccepted ==
    /\ call.fn = "forecast_5day" /\ ret # NotCalled
    /\ Fetched(call.resp).ok /\ IsDict(call.resp.body)
    /\ Get(call.resp.body, "cod", Null) \in {Num(200), Str("200")}

\* C17: forecast_5day returns one entry per distinct UTC date of the samples,
\* for more than 5 dates the entries of the 5 earliest ones whatever the
\* order of the samples, and the empty list, without an error, for an empty
\* sample list
C17_OnePerDate ==
    /\ ForecastAccepted => ret.ok
    /\ ForecastAccepted /\ ForecastInput = <<>> => ret.val = <<>>
    /\ ForecastReturned =>
         /\ Cardinality(EntryDates) = Len(ret.val)
         /\ EntryDates \subseteq InputDates
         /\ Len(ret.val) = IF Cardinality(InputDates) < 5 THEN Cardinality(InputDates) ELSE 5
         /\ \A e \in EntryDates : \A d \in InputDates \ EntryDates : DateLess(e, d)

\* six dates whose latest comes first in the input: its entry is dropped
C17_Witness ==
    /\ ForecastReturned
    /\ Cardinality(InputDates) = 6
    /\ \A i \in 2..Len(ForecastInput) :
         DateLess(DateKey(ForecastInput[i].dt), DateKey(ForecastInput[1].dt))
    /\ Len(ret.val) = 5
    /\ DateKey(ForecastInput[1].dt) \notin EntryDates

\* ---- C18
\* the least temp_min and the greatest temp_max of e's date group (tenths)
GroupMin(list, e) ==
    CHOOSE x \in {list[i].temp_min : i \in DOMAIN GroupOf(list, e)} :
        \A i \in DOMAIN GroupOf(list, e) : x <= list[i].temp_min
GroupMax(list, e) ==
    CHOOSE x \in {list[i].temp_max : i \in DOMAIN GroupOf(list, e)} :
        \A i \in DOMAIN GroupOf(list, e) : x >= list[i].temp_max
\* the greatest integer not above t tenths
FloorOf(t) == CHOOSE n \in -100..100 : 10 * n <= t /\ t < 10 * (n + 1)
\* n is the integer nearest to t tenths, a tie going away from zero
NearestTiesAway(n, t) ==
    \/ 10 * n - t < 5 /\ t - 10 * n < 5
    \/ t >= 0 /\ 10 * n - t = 5
    \/ t < 0 /\ t - 10 * n = 5
\* n is the integer nearest to t tenths, a tie going to the even integer
NearestTiesEven(n, t) ==
    \/ 10 * n - t < 5 /\ t - 10 * n < 5
    \/ (10 * n - t = 5 \/ t - 10 * n = 5) /\ n % 2 = 0

\* C18: for each date group tmin is the floor of the least temp_min of the
\* group (2.7 gives 2) and tmax is the greatest temp_max rounded to nearest,
\* ties away from zero (2.5 gives 3)
C18_FloorAndTiesAway ==
    ForecastReturned =>
        \A k \in 1..Len(ret.val) :
            /\ ret.val[k].tmin = FloorOf(GroupMin(ForecastInput, ret.val[k]))
            /\ NearestTiesAway(ret.val[k].tmax, GroupMax(ForecastInput, ret.val[k]))

\* C18 as the code has it: for each date group tmin is the least temp_min and
\* tmax the greatest temp_max of the group, both rounded to the nearest
\* integer with a tie going to the even integer (2.7 gives 3, 2.5 gives 2,
\* -1.5 gives -2)
C18_NearestTiesEven ==
    ForecastReturned =>
        \A k \in 1..Len(ret.val) :
            /\ NearestTiesEven(ret.val[k].tmin, GroupMin(ForecastInput, ret.val[k]))
            /\ NearestTiesEven(ret.val[k].tmax, GroupMax(ForecastInput, ret.val[k]))

\* a group whose minimum 2.7 gives tmin 3 and one whose maximum 2.5 gives tmax 2
C18_Witness ==
    /\ ForecastReturned
    /\ \E k \in 1..Len(ret.val) :
         GroupMin(ForecastInput, ret.val[k]) = 27 /\ ret.val[k].tmin = 3
    /\ \E k \in 1..Len(ret.val) :
         GroupMax(ForecastInput, ret.val[k]) = 25 /\ ret.val[k].tmax = 2

\* ---- C19
\* the k-th candidate path of a running save_qr: base.ext for k = 0, else
\* base_k.ext, in the save directory
Candidate(g, k) ==
    Path(g.current_save_dir,
         IF k = 0 THEN FileName(g.base_filename, g.file_ext)
         ELSE NumberedName(g.base_filename, k, g.file_ext))
\* the candidates that do not exist; one of the first n + 1 is free when
\* the file system holds n files
FreeIndices(g, fs) ==
    {k \in 0..Cardinality(DOMAIN fs) : ~Exists(fs, Candidate(g, k))}
\* base.ext if it does not exist, otherwise base_k.ext for the least such k
ExpectedPath(g, fs) ==
    Candidate(g, CHOOSE k \in FreeIndices(g, fs) : \A j \in FreeIndices(g, fs) : k <= j)

\* C19: save_qr never overwrites an existing file: what it writes is a new
\* file at base.ext if that path does not exist, otherwise at base_k.ext for
\* the smallest k >= 1 whose path does not exist, every other file being left
\* as it was; and its conflict loop ends: its counter never exceeds the
\* (finite) number of files by more than one
C19_NoOverwrite ==
    /\ [](generator.pc = "loop" =>
            generator.counter <= Cardinality(DOMAIN files) + 1)
    /\ [][generator.pc = "loop" /\ files' # files =>
            /\ FreeIndices(generator, files) # {}
            /\ ~Exists(files, ExpectedPath(generator, files))
            /\ files' = Saved(files, ExpectedPath(generator, files),
                              generator.current_qr)]_vars

\* qrcode.png and qrcode_2.png existed, and the image went to qrcode_1.png
C19_Witness ==
    /\ DOMAIN files = InitialPaths
    /\ files[Path(DefaultDir, "qrcode.png")] = OldContent
    /\ files[Path(DefaultDir, "qrcode_2.png")] = OldContent
    /\ files[Path(DefaultDir, "qrcode_1.png")] # OldContent
    /\ generator.status_label = "QR code saved to: qrcode_1.png"

\* ---- C20
\* the part of the window the claim is about
SaveState(g) == <<g.current_qr, g.save_btn, g.save_as_btn, g.status_label>>

\* C20: whatever the user does, Save and Save As are enabled only while
\* current_qr holds an image; generate_qr on an empty or whitespace-only text
\* (it shows the Input Error box and returns) leaves current_qr, both buttons
\* and the status line as they were; and nothing is written while current_qr
\* is None
C20_SaveGuard ==
    /\ [](generator.save_btn \/ generator.save_as_btn =>
            generator.current_qr # NoImage)
    /\ [][generator.message_box = "Input Error" \/ generator'.message_box = "Input Error" =>
            SaveState(generator') = SaveState(generator) /\ files' = files]_vars
    /\ [](generator.message_box = "Input Error" => StripText(generator.input_text) = "")
    /\ [][generator.current_qr = NoImage => files' = files]_vars

\* an image was generated, then Generate was clicked on a whitespace-only text
C20_Witness ==
    /\ generator.message_box = "Input Error"
    /\ generator.input_text = "  "
    /\ generator.current_qr # NoImage /\ generator.save_btn /\ generator.save_as_btn
    /\ generator.status_label = "QR code generated successfully. Ready to save."

====
